---- MODULE Spec2Model ----
(***************************************************************************)
(* State-machine model of the Learnella Telegram bot (src/bot.py):         *)
(* the per-user session dictionary USER_SESSIONS, the aiogram FSM storage  *)
(* (state and data per user), the temporary audio files on disk, the       *)
(* inline-keyboard messages present in the chat, and the button taps the   *)
(* client may still deliver for a message the bot has just changed.  One   *)
(* action per handler; each action is the whole handler, with every        *)
(* message it sends and every backend call it makes recorded, in order, in *)
(* last.events.  A second specification, SpecInterleaved, handles the      *)
(* updates of two users concurrently and splits the grading handlers at    *)
(* their backend call.                                                     *)
(***************************************************************************)
EXTENDS Integers, Sequences, FiniteSets, TLC

\* ----- bounds -----
MaxCards == 2        \* longest card batch the backend returns
MaxQuestions == 3    \* longest quiz the backend returns
MaxTaps == 2         \* taps the client sends on one message before it sees it change
MaxLists == 1        \* quiz-list messages of one user in the chat at once
MaxQuestionMsgs == 1 \* question messages in the chat when a quiz is selected
MaxRunning == 2      \* handler runs of one user suspended at a backend call at once
MaxGraded == 3       \* grading requests of one batch when handlers run concurrently

AllUsers == {1, 2}
SpecUsers == {1}

\* ----- FSM states (aiogram: "<group>:<state>", None when no state is set) -----
NoFlow == "None"
AwaitingUsername == "AuthStates:waiting_for_username"
AwaitingPassword == "AuthStates:waiting_for_password"
TeacherAwaitingSubject == "TeacherStates:waiting_for_subject"
TeacherAwaitingAudio == "TeacherStates:waiting_for_audio"
TeacherAwaitingTitle == "TeacherStates:waiting_for_title"
TeacherAwaitingDescription == "TeacherStates:waiting_for_description"
TeacherAwaitingContentType == "TeacherStates:waiting_for_content_type"
TeacherAwaitingCount == "TeacherStates:waiting_for_count"
StudentInLearning == "StudentStates:in_learning_session"
StudentInReview == "StudentStates:in_review_session"

FlowStates ==
  {NoFlow, AwaitingUsername, AwaitingPassword, TeacherAwaitingSubject,
   TeacherAwaitingAudio, TeacherAwaitingTitle, TeacherAwaitingDescription,
   TeacherAwaitingContentType, TeacherAwaitingCount, StudentInLearning,
   StudentInReview}

\* ----- texts: a text is a sequence of symbols; a button label is one symbol -----
StartText == <<"/start">>
LoginTeacherText == <<"Login as Teacher">>
LoginStudentText == <<"Login as Student">>
UploadText == <<"Upload Audio for Content Generation">>
LearnText == <<"Learn New Flashcards">>
ReviewText == <<"Review Due Flashcards">>
QuizText == <<"Take Quiz">>
MenuTexts ==
  {StartText, LoginTeacherText, LoginStudentText, UploadText, LearnText,
   ReviewText, QuizText}
\* what the user types inside a flow: a word, or a menu label
UsernameTexts == {<<"a">>}
PasswordTexts == {<<"s">>}
TitleTexts == {<<"t">>}
DescriptionTexts == {<<"d">>}

\* ----- what the backend may answer -----
TokenStatuses == {200, 401, 500}
GetStatuses == {200, 500}
PostStatuses == {201, 400}
AccessTokens == {"access1"}
RefreshTokens == {"refresh1"}
SubjectIds == {"1"}
AudioIds == {41, 42}
ContentTypes == {"flashcards", "quiz", "both"}
QuizIds == {"1"}
\* option texts; the first equals the answer up to case and surrounding blanks
Options == {<<" ", "p", "A", " ">>, <<"r">>}
CorrectAnswers == {<<"P", "a">>}
\* what the user types as the item count
CountTexts == {<<"7">>, <<"a">>, <<" ", "1", "2">>, <<"-", "3">>, LearnText}

\* ----- text functions -----
Blank(c) == c \in {" ", "\t", "\n"}
RECURSIVE LStrip(_)
LStrip(s) == IF s # <<>> /\ Blank(Head(s)) THEN LStrip(Tail(s)) ELSE s
RECURSIVE RStrip(_)
RStrip(s) == IF s # <<>> /\ Blank(s[Len(s)]) THEN RStrip(SubSeq(s, 1, Len(s) - 1)) ELSE s
Strip(s) == RStrip(LStrip(s))
LowerSym(c) ==
  CASE c = "P" -> "p" [] c = "A" -> "a" [] c = "R" -> "r" [] OTHER -> c
Lower(s) == [i \in 1..Len(s) |-> LowerSym(s[i])]

DigitValue ==
  [c \in {"0", "1", "2", "3", "4", "5", "6", "7", "8", "9"} |->
     CASE c = "0" -> 0 [] c = "1" -> 1 [] c = "2" -> 2 [] c = "3" -> 3 [] c = "4" -> 4
       [] c = "5" -> 5 [] c = "6" -> 6 [] c = "7" -> 7 [] c = "8" -> 8 [] c = "9" -> 9]
IsDigits(s) == s # <<>> /\ \A i \in 1..Len(s) : s[i] \in DOMAIN DigitValue
RECURSIVE Digits(_)
Digits(s) == IF s = <<>> THEN 0 ELSE 10 * Digits(SubSeq(s, 1, Len(s) - 1)) + DigitValue[s[Len(s)]]
\* int(text): blanks around, an optional sign, decimal digits; anything else is ValueError
Unsigned(s) == IF s # <<>> /\ Head(s) \in {"+", "-"} THEN Tail(s) ELSE s
IsInt(text) == IsDigits(Unsigned(Strip(text)))
IntOf(text) ==
  LET t == Strip(text)
  IN IF Head(t) = "-" THEN 0 - Digits(Unsigned(t)) ELSE Digits(Unsigned(t))

\* ----- Python dict as a function on the set of keys present -----
EmptyDict == [k \in {} |-> TRUE]
Put(d, k, v) == [x \in (DOMAIN d) \cup {k} |-> IF x = k THEN v ELSE d[x]]
Has(d, k) == k \in DOMAIN d
Update(d, e) == [x \in (DOMAIN d) \cup (DOMAIN e) |-> IF x \in DOMAIN e THEN e[x] ELSE d[x]]

VARIABLES
  USER_SESSIONS,  \* dict: user id -> session dict
  fsm,            \* MemoryStorage: state of each user
  fsmData,        \* MemoryStorage: data dict of each user (state.proxy())
  files,          \* temporary audio files on disk (paths)
  live,           \* per user: how many messages with each keyboard are in the chat
  stale,          \* per user: the taps still under way for the message changed last
  last,           \* the update handled by the last step and what the handler did
  hist,           \* history, per user: the login button pressed last, the passwords
                  \* typed, the grading calls of the current batch, the options
                  \* selected and the completions of the current quiz attempt
  running         \* per user: the handler runs suspended at a backend call, with
                  \* the locals they hold

vars == <<USER_SESSIONS, fsm, fsmData, files, live, stale, last, hist, running>>

\* ----- events of one handler run, in program order -----
Send(tmpl, texts, nums) == [ev |-> "send", name |-> tmpl, texts |-> texts, nums |-> nums]
Say(tmpl) == Send(tmpl, {}, <<>>)
CallWithoutToken(endpoint, token, body) ==
  [ev |-> "call", name |-> endpoint, token |-> "", body |-> body]
Call(endpoint, token, body) == [ev |-> "call", name |-> endpoint, token |-> token, body |-> body]
Response(endpoint, status, body) == [ev |-> "response", name |-> endpoint, status |-> status, body |-> body]
\* deletion of a chat message: the update's own message ("incoming") or the
\* keyboard message a callback query came from (its keyboard)
DeleteMessage(which) == [ev |-> "delete_message", name |-> which]
EditMessage(which) == [ev |-> "edit_message", name |-> which]
Unlink(path) == [ev |-> "unlink", name |-> "unlink", path |-> path]

NoUpdate == [user |-> 0, handler |-> "none", state |-> NoFlow, text |-> <<>>,
             events |-> <<>>, raised |-> ""]

\* handler h of user u ran on the update with text (or callback data) txt in the
\* state fsm[u], did evs and ended with exception exc ("" when it returned)
Step(u, h, txt, evs, exc) ==
  [user |-> u, handler |-> h, state |-> fsm[u], text |-> txt,
   events |-> evs, raised |-> exc]


\* ----- keyboards and button taps -----
Keyboards == {"subjects", "content", "front", "back", "quizzes", "question"}

\* str.split("_"): the segments between the separators
RECURSIVE Split(_)
Split(s) ==
  IF \A i \in 1..Len(s) : s[i] # "_" THEN <<s>>
  ELSE LET k == CHOOSE i \in 1..Len(s) : s[i] = "_" /\ \A j \in 1..(i - 1) : s[j] # "_"
       IN <<SubSeq(s, 1, k - 1)>> \o Split(SubSeq(s, k + 1, Len(s)))
\* str.split("_", 1)[1]: everything after the first separator
AfterFirst(s) ==
  LET k == CHOOSE i \in 1..Len(s) : s[i] = "_" /\ \A j \in 1..(i - 1) : s[j] # "_"
  IN SubSeq(s, k + 1, Len(s))
\* c.data.startswith("<word>_")
StartsWith(s, word) == Len(s) >= 2 /\ s[1] = word /\ s[2] = "_"

\* the buttons of a keyboard, as callback data
Buttons(kb) ==
  CASE kb = "subjects" -> {<<"subject", "_", x>> : x \in SubjectIds}
    [] kb = "content" -> {<<"content", "_", c>> : c \in ContentTypes}
    [] kb = "front" -> {<<"show_answer">>, <<"skip_card">>}
    [] kb = "back" -> {<<"knew_it">>, <<"learning">>}
    [] kb = "quizzes" -> {<<"quiz", "_", q>> : q \in QuizIds}
    [] kb = "question" -> {<<"option", "_">> \o o : o \in Options}
    [] OTHER -> {}

\* no tap is under way
NoStale == [old |-> "none", now |-> "gone", left |-> 0]

\* The callback queries that can arrive for user u.  A query carries the data
\* of the button and the message it came from; target is the keyboard that
\* message has now, "gone" when the bot has deleted it.  Either the user taps a
\* button of a message in the chat, or a tap arrives that the client sent
\* before it saw the bot edit or delete the message (stale[u].old is the
\* keyboard the message had, stale[u].left how many such taps may still come).
Taps(u) ==
  LET fresh == UNION {{[data |-> b, target |-> k, late |-> FALSE] : b \in Buttons(k)} :
                        k \in {x \in Keyboards : live[u][x] > 0}}
      late == IF stale[u].left > 0
              THEN {[data |-> b, target |-> stale[u].now, late |-> TRUE] :
                      b \in Buttons(stale[u].old)}
              ELSE {}
  IN {t \in fresh \cup late :
        StartsWith(t.data, "quiz") => live[u]["question"] < MaxQuestionMsgs}

IsLive(u, t) == t.target # "gone" /\ live[u][t.target] > 0

Pending(old, now, left) ==
  IF left = 0 THEN NoStale ELSE [old |-> old, now |-> now, left |-> left]

\* The handler of query t has turned the message of t into becomes ("same":
\* untouched, "gone": deleted, else the new keyboard) and sent the messages
\* with the keyboards in creates.
Chat(u, t, becomes, creates) ==
  LET moved == becomes # "same"
  IN /\ live' = [live EXCEPT ![u] = [k \in Keyboards |->
                   @[k] - (IF moved /\ k = t.target THEN 1 ELSE 0)
                        + (IF moved /\ k = becomes THEN 1 ELSE 0)
                        + (IF k \in creates THEN 1 ELSE 0)]]
     /\ stale' = [stale EXCEPT ![u] =
                   IF t.late
                   THEN Pending(@.old, IF moved THEN becomes ELSE @.now, @.left - 1)
                   ELSE IF moved
                   THEN Pending(t.target, becomes, MaxTaps - 1)
                   ELSE @]

\* A message update: the taps sent before it have been handled (updates arrive
\* in the order the client sent them).
Typed(u) == stale' = [stale EXCEPT ![u] = NoStale]

Init ==
  /\ USER_SESSIONS = EmptyDict
  /\ fsm = [u \in AllUsers |-> NoFlow]
  /\ fsmData = [u \in AllUsers |-> EmptyDict]
  /\ files = {}
  /\ live = [u \in AllUsers |-> [k \in Keyboards |-> 0]]
  /\ stale = [u \in AllUsers |-> NoStale]
  /\ last = NoUpdate
  /\ hist = [u \in AllUsers |->
               [chosen |-> <<>>, passwords |-> {}, graded |-> <<>>, selected |-> <<>>,
                completions |-> 0]]
  /\ running = [u \in AllUsers |-> <<>>]

LoggedIn(u) == u \in DOMAIN USER_SESSIONS /\ Has(USER_SESSIONS[u], "access_token")

\* ----- menus -----
show_teacher_menu == <<Say("teacher_menu")>>
show_student_menu == <<Say("student_menu")>>

\* ----- authentication -----
cmd_start(u) ==
  /\ fsm[u] = NoFlow
  /\ last' = Step(u, "cmd_start", StartText, <<Say("welcome")>>, "")
  /\ Typed(u)
  /\ UNCHANGED <<USER_SESSIONS, fsm, fsmData, files, live, hist, running>>

LoginFilterAnyState(state) == TRUE
\* the state filter of login_handler (no state= argument: the default state)
LoginFilter(state) == state = NoFlow

login_handler(u, text) ==
  /\ LoginFilter(fsm[u])
  /\ text \in {LoginTeacherText, LoginStudentText}
  /\ USER_SESSIONS' = Put(USER_SESSIONS, u,
        [role |-> IF text = LoginTeacherText THEN "teacher" ELSE "student"])
  /\ fsm' = [fsm EXCEPT ![u] = AwaitingUsername]
  /\ last' = Step(u, "login_handler", text, <<Say("enter_username")>>, "")
  /\ hist' = [hist EXCEPT ![u] = [chosen |-> text, passwords |-> @.passwords,
                                  graded |-> <<>>, selected |-> <<>>, completions |-> 0]]
  /\ Typed(u)
  /\ UNCHANGED <<fsmData, files, live, running>>

process_username(u, text) ==
  /\ fsm[u] = AwaitingUsername
  /\ USER_SESSIONS' = [USER_SESSIONS EXCEPT ![u] = Put(@, "username", text)]
  /\ fsm' = [fsm EXCEPT ![u] = AwaitingPassword]
  /\ last' = Step(u, "process_username", text, <<Say("enter_password")>>, "")
  /\ Typed(u)
  /\ UNCHANGED <<fsmData, files, live, hist, running>>

TokenRequest(username, password) ==
  Call("token", "", [username |-> username, password |-> password])

LoginOk(status) == status = 200
MenuForStudent(role) == show_student_menu
MenuFor(role) == IF role = "teacher" THEN show_teacher_menu ELSE show_student_menu
LoginFailedNoticeEchoes(password) == Send("login_failed", {password}, <<>>)
LoginFailedNotice(password) == Say("login_failed")
FailedLoginStateStays == AwaitingPassword
FailedLoginState == AwaitingUsername

process_password(u, text, status, access, refresh) ==
  /\ fsm[u] = AwaitingPassword
  /\ LET username == USER_SESSIONS[u]["username"]
         password == text
         role == USER_SESSIONS[u]["role"]
         data == [access |-> access, refresh |-> refresh]
         exchange == <<DeleteMessage("incoming"), TokenRequest(username, password),
                       Response("token", status, data)>>
     IN IF LoginOk(status)
        THEN /\ USER_SESSIONS' = [USER_SESSIONS EXCEPT ![u] =
                    Update(@, [access_token |-> data.access, refresh_token |-> data.refresh])]
             /\ fsm' = [fsm EXCEPT ![u] = NoFlow]
             /\ fsmData' = [fsmData EXCEPT ![u] = EmptyDict]
             /\ last' = Step(u, "process_password", text,
                    exchange \o MenuFor(role), "")
        ELSE /\ fsm' = [fsm EXCEPT ![u] = FailedLoginState]
             /\ last' = Step(u, "process_password", text,
                    exchange \o <<LoginFailedNotice(password), Say("enter_username")>>, "")
             /\ UNCHANGED <<USER_SESSIONS, fsmData>>
  /\ hist' = [hist EXCEPT ![u].passwords = @ \cup {text}]
  /\ Typed(u)
  /\ UNCHANGED <<files, live, running>>

\* ----- teacher upload wizard -----
upload_audio_handler(u, status) ==
  /\ fsm[u] = NoFlow
  /\ IF ~LoggedIn(u)
     THEN /\ last' = Step(u, "upload_audio_handler", UploadText, <<Say("login_first")>>, "")
          /\ UNCHANGED <<fsm, live>>
     ELSE LET call == <<Call("subjects", USER_SESSIONS[u]["access_token"], <<>>),
                        Response("subjects", status, <<>>)>>
          IN IF status = 200
             THEN /\ fsm' = [fsm EXCEPT ![u] = TeacherAwaitingSubject]
                  /\ live' = [live EXCEPT ![u]["subjects"] = 1]
                  /\ last' = Step(u, "upload_audio_handler", UploadText,
                        call \o <<Say("select_subject")>>, "")
             ELSE /\ last' = Step(u, "upload_audio_handler", UploadText,
                        call \o <<Say("subjects_failed")>>, "")
                  /\ UNCHANGED <<fsm, live>>
  /\ Typed(u)
  /\ UNCHANGED <<USER_SESSIONS, fsmData, files, hist, running>>

process_subject_selection(u, t) ==
  /\ fsm[u] = TeacherAwaitingSubject
  /\ StartsWith(t.data, "subject")
  /\ fsmData' = [fsmData EXCEPT ![u] = Put(@, "subject_id", Split(t.data)[2])]
  /\ fsm' = [fsm EXCEPT ![u] = TeacherAwaitingAudio]
  /\ last' = Step(u, "process_subject_selection", t.data,
        <<Say("answer_callback_query"), Say("send_audio")>>, "")
  /\ Chat(u, t, "same", {})
  /\ UNCHANGED <<USER_SESSIONS, files, hist, running>>

\* tempfile.NamedTemporaryFile: a path that names no existing file
NewPath == CHOOSE p \in 1..(Cardinality(files) + 1) : p \notin files

process_audio(u) ==
  /\ fsm[u] = TeacherAwaitingAudio
  /\ files' = files \cup {NewPath}
  /\ fsm' = [fsm EXCEPT ![u] = TeacherAwaitingTitle]
  /\ fsmData' = [fsmData EXCEPT ![u] = Put(@, "audio_file_path", NewPath)]
  /\ last' = Step(u, "process_audio", <<>>,
        <<Say("downloading"), Say("enter_title")>>, "")
  /\ Typed(u)
  /\ UNCHANGED <<USER_SESSIONS, live, hist, running>>

process_title(u, text) ==
  /\ fsm[u] = TeacherAwaitingTitle
  /\ fsmData' = [fsmData EXCEPT ![u] = Put(@, "title", text)]
  /\ fsm' = [fsm EXCEPT ![u] = TeacherAwaitingDescription]
  /\ last' = Step(u, "process_title", text, <<Say("enter_description")>>, "")
  /\ Typed(u)
  /\ UNCHANGED <<USER_SESSIONS, files, live, hist, running>>

process_description(u, text) ==
  /\ fsm[u] = TeacherAwaitingDescription
  /\ fsmData' = [fsmData EXCEPT ![u] = Put(@, "description", text)]
  /\ fsm' = [fsm EXCEPT ![u] = TeacherAwaitingContentType]
  /\ live' = [live EXCEPT ![u]["content"] = 1]
  /\ last' = Step(u, "process_description", text, <<Say("select_content_type")>>, "")
  /\ Typed(u)
  /\ UNCHANGED <<USER_SESSIONS, files, hist, running>>

process_content_type(u, t) ==
  /\ fsm[u] = TeacherAwaitingContentType
  /\ StartsWith(t.data, "content")
  /\ fsmData' = [fsmData EXCEPT ![u] = Put(@, "content_type", Split(t.data)[2])]
  /\ fsm' = [fsm EXCEPT ![u] = TeacherAwaitingCount]
  /\ last' = Step(u, "process_content_type", t.data,
        <<Say("answer_callback_query"), Say("how_many")>>, "")
  /\ Chat(u, t, "same", {})
  /\ UNCHANGED <<USER_SESSIONS, files, hist, running>>

UploadOkAlways(status) == TRUE
UploadOk(status) == status = 201
GenerateOk(status) == status = 201
DefaultCount == 10
CountOfDigitsOnly(text) == IF IsDigits(text) THEN Digits(text) ELSE DefaultCount
CountOf(text) == IF IsInt(text) THEN IntOf(text) ELSE DefaultCount

UploadRequest(token, data) ==
  Call("upload", token,
       [file |-> data["audio_file_path"], title |-> data["title"],
        description |-> data["description"], subject_id |-> data["subject_id"]])
GenerateRequest(token, data, audio_id, count) ==
  Call("generate", token,
       [input_type |-> "audio", content_type |-> data["content_type"],
        audio_id |-> audio_id, count |-> count, subject_id |-> data["subject_id"]])

process_count_and_upload(u, text, upStatus, id, genStatus) ==
  /\ fsm[u] = TeacherAwaitingCount
  /\ LET count == CountOf(text)
         data == fsmData[u]
         audio_file_path == data["audio_file_path"]
         token == USER_SESSIONS[u]["access_token"]
         audio_data == [id |-> id]
         upload == <<Say("uploading"), UploadRequest(token, data),
                     Response("upload", upStatus, audio_data)>>
         generate == upload \o <<GenerateRequest(token, data, audio_data.id, count),
                                 Response("generate", genStatus, <<>>)>>
     IN IF audio_file_path \notin files
        THEN /\ last' = Step(u, "process_count_and_upload", text,
                    <<Say("uploading")>>, "FileNotFoundError")
             /\ UNCHANGED <<fsm, fsmData, files>>
        ELSE IF ~UploadOk(upStatus)
        THEN /\ last' = Step(u, "process_count_and_upload", text,
                    upload \o <<Say("upload_failed")>>, "")
             /\ UNCHANGED <<fsm, fsmData, files>>
        ELSE IF ~GenerateOk(genStatus)
        THEN /\ last' = Step(u, "process_count_and_upload", text,
                    generate \o <<Say("generation_failed")>>, "")
             /\ UNCHANGED <<fsm, fsmData, files>>
        ELSE /\ files' = files \ {audio_file_path}
             /\ fsm' = [fsm EXCEPT ![u] = NoFlow]
             /\ fsmData' = [fsmData EXCEPT ![u] = EmptyDict]
             /\ last' = Step(u, "process_count_and_upload", text,
                    generate \o <<Say("content_generated"), Unlink(audio_file_path)>>
                             \o show_teacher_menu, "")
  /\ Typed(u)
  /\ UNCHANGED <<USER_SESSIONS, live, hist, running>>

\* ----- card review -----
\* the batch the backend returns: n cards, each with its own id
Batch(n) == [i \in 1..n |-> [id |-> 10 + i]]

\* show_current_flashcard: what it sends for session dict S
CardShown(S) == S["current_index"] < Len(S["current_flashcards"])
show_current_flashcard(S) ==
  IF ~CardShown(S)
  THEN <<Say("all_reviewed")>> \o show_student_menu
  ELSE <<Send("card", {}, <<S["current_index"] + 1, Len(S["current_flashcards"])>>)>>

\* learn_new_flashcards_handler and review_flashcards_handler differ in the
\* endpoint, the empty-batch notice and the state they set
StartReview(u, handler, text, endpoint, none, state, status, n) ==
  /\ fsm[u] = NoFlow
  /\ IF ~LoggedIn(u)
     THEN /\ last' = Step(u, handler, text, <<Say("login_first")>>, "")
          /\ UNCHANGED <<USER_SESSIONS, fsm, live, hist>>
     ELSE LET call == <<Say("loading"), Call(endpoint, USER_SESSIONS[u]["access_token"], <<>>),
                        Response(endpoint, status, <<>>)>>
              S == Update(USER_SESSIONS[u],
                     [current_flashcards |-> Batch(n), current_index |-> 0])
          IN IF status # 200
             THEN /\ last' = Step(u, handler, text, call \o <<Say("cards_failed")>>, "")
                  /\ UNCHANGED <<USER_SESSIONS, fsm, live, hist>>
             ELSE IF n = 0
             THEN /\ last' = Step(u, handler, text, call \o <<Say(none)>>, "")
                  /\ UNCHANGED <<USER_SESSIONS, fsm, live, hist>>
             ELSE /\ USER_SESSIONS' = [USER_SESSIONS EXCEPT ![u] = S]
                  /\ fsm' = [fsm EXCEPT ![u] = state]
                  /\ live' = [live EXCEPT ![u]["front"] = @ + 1]
                  /\ last' = Step(u, handler, text, call \o show_current_flashcard(S), "")
                  /\ hist' = [hist EXCEPT ![u].graded = <<>>]
  /\ Typed(u)
  /\ UNCHANGED <<fsmData, files, running>>

learn_new_flashcards_handler(u, status, n) ==
  StartReview(u, "learn_new_flashcards_handler", LearnText, "new-cards",
              "no_new_cards", StudentInLearning, status, n)

review_flashcards_handler(u, status, n) ==
  StartReview(u, "review_flashcards_handler", ReviewText, "due-reviews",
              "no_due_cards", StudentInReview, status, n)

InReview(u) == fsm[u] \in {StudentInLearning, StudentInReview}
\* flashcards[current_index] raises IndexError
PastEnd(S) == S["current_index"] >= Len(S["current_flashcards"])

show_answer_handler(u, t) ==
  /\ InReview(u)
  /\ t.data = <<"show_answer">>
  /\ IF PastEnd(USER_SESSIONS[u])
     THEN /\ last' = Step(u, "show_answer_handler", t.data, <<>>, "IndexError")
          /\ Chat(u, t, "same", {})
     ELSE IF ~IsLive(u, t)
     THEN /\ last' = Step(u, "show_answer_handler", t.data, <<>>, "MessageToEditNotFound")
          /\ Chat(u, t, "same", {})
     ELSE /\ last' = Step(u, "show_answer_handler", t.data, <<EditMessage(t.target)>>, "")
          /\ Chat(u, t, "back", {})
  /\ UNCHANGED <<USER_SESSIONS, fsm, fsmData, files, hist, running>>

\* the part shared by the three handlers that leave a card: current_index is
\* advanced, the callback answered, the tapped message deleted, then ack is
\* sent and the next card shown
\* the message with keyboard target is deleted: the suspended runs of taps on
\* it will find it gone
Gone(runs, target) ==
  [i \in DOMAIN runs |->
     IF runs[i].target = target THEN [runs[i] EXCEPT !.gone = TRUE] ELSE runs[i]]

LeaveCard(u, t, handler, calls, ack) ==
  LET S == [USER_SESSIONS[u] EXCEPT !["current_index"] = @ + 1]
      done == calls \o <<Say("answer_callback_query")>>
  IN /\ USER_SESSIONS' = [USER_SESSIONS EXCEPT ![u] = S]
     /\ IF ~IsLive(u, t)
        THEN /\ last' = Step(u, handler, t.data, done, "MessageToDeleteNotFound")
             /\ Chat(u, t, "same", {})
             /\ UNCHANGED running
        ELSE /\ last' = Step(u, handler, t.data,
                    done \o <<DeleteMessage(t.target)>> \o ack \o show_current_flashcard(S), "")
             /\ Chat(u, t, "gone", IF CardShown(S) THEN {"front"} ELSE {})
             /\ running' = [running EXCEPT ![u] = Gone(@, t.target)]

skip_card_handler(u, t) ==
  /\ InReview(u)
  /\ t.data = <<"skip_card">>
  /\ LeaveCard(u, t, "skip_card_handler", <<>>, <<>>)
  /\ UNCHANGED <<fsm, fsmData, files, hist>>

DirectionSwapped(knew) == IF knew THEN "right" ELSE "left"
Direction(knew) == IF knew THEN "left" ELSE "right"

\* the grading request of knew_it_handler (knew = TRUE) and still_learning_handler
GradeRequest(u, knew) ==
  LET S == USER_SESSIONS[u]
      current_card == S["current_flashcards"][S["current_index"] + 1]
  IN IF fsm[u] = StudentInLearning
     THEN Call("swipe", S["access_token"],
               [card |-> current_card.id, direction |-> Direction(knew)])
     ELSE Call("review", S["access_token"], [card |-> current_card.id, was_correct |-> knew])

Grade(u, t, handler, knew, ack) ==
  /\ InReview(u)
  /\ IF PastEnd(USER_SESSIONS[u])
     THEN /\ last' = Step(u, handler, t.data, <<>>, "IndexError")
          /\ Chat(u, t, "same", {})
          /\ UNCHANGED <<USER_SESSIONS, hist, running>>
     ELSE /\ LeaveCard(u, t, handler, <<GradeRequest(u, knew)>>, <<Say(ack)>>)
          /\ hist' = [hist EXCEPT ![u].graded = Append(@, GradeRequest(u, knew))]
  /\ UNCHANGED <<fsm, fsmData, files>>

knew_it_handler(u, t) ==
  t.data = <<"knew_it">> /\ Grade(u, t, "knew_it_handler", TRUE, "marked_known")

still_learning_handler(u, t) ==
  t.data = <<"learning">> /\ Grade(u, t, "still_learning_handler", FALSE, "will_come_back")

\* ----- the grading handlers, run concurrently -----
\* The dispatcher starts a task per update and a handler gives way to the
\* other tasks where it awaits the backend.  A grading handler runs in two
\* steps: up to its request (the filters, the reads of current_index and of the
\* card, the choice of the endpoint by the state), and from the response on.
GradeBegins(u, t, handler, knew, ack) ==
  /\ InReview(u)
  /\ Len(running[u]) < MaxRunning
  /\ Len(hist[u].graded) < MaxGraded
  /\ IF PastEnd(USER_SESSIONS[u])
     THEN /\ last' = Step(u, handler, t.data, <<>>, "IndexError")
          /\ UNCHANGED <<hist, running>>
     ELSE /\ last' = Step(u, handler, t.data, <<GradeRequest(u, knew)>>, "")
          /\ hist' = [hist EXCEPT ![u].graded = Append(@, GradeRequest(u, knew))]
          /\ running' = [running EXCEPT ![u] = Append(@,
                [handler |-> handler, data |-> t.data, target |-> t.target,
                 current_index |-> USER_SESSIONS[u]["current_index"],
                 gone |-> ~IsLive(u, t), ack |-> ack])]
  /\ Chat(u, t, "same", {})
  /\ UNCHANGED <<USER_SESSIONS, fsm, fsmData, files>>

knew_it_begins(u, t) ==
  t.data = <<"knew_it">> /\ GradeBegins(u, t, "knew_it_handler", TRUE, "marked_known")

still_learning_begins(u, t) ==
  t.data = <<"learning">>
    /\ GradeBegins(u, t, "still_learning_handler", FALSE, "will_come_back")

StoredForAll(sessions, u, S) == [x \in DOMAIN sessions |-> S]
\* USER_SESSIONS[user_id] after the write of a handler of user_id
Stored(sessions, u, S) == [sessions EXCEPT ![u] = S]

Without(runs, i) == SubSeq(runs, 1, i - 1) \o SubSeq(runs, i + 1, Len(runs))

AdvancedFromRead(S, r) == [S EXCEPT !["current_index"] = r.current_index + 1]
\* USER_SESSIONS[user_id]["current_index"] += 1, with nothing awaited between
\* its read and its write
Advanced(S, r) == [S EXCEPT !["current_index"] = @ + 1]

\* The request of run i of user u has ended: it raised, or it returned a
\* response (whose status the handler ignores) and the handler runs on.
GradeResumes(u, i, raises) ==
  LET r == running[u][i]
      rest == Without(running[u], i)
      t == [data |-> r.data, target |-> r.target, late |-> FALSE]
      S == Advanced(USER_SESSIONS[u], r)
      done == <<Say("answer_callback_query")>>
  IN /\ IF raises
        THEN /\ last' = Step(u, r.handler, r.data, <<>>, "ClientError")
             /\ running' = [running EXCEPT ![u] = rest]
             /\ UNCHANGED <<USER_SESSIONS, live, stale>>
        ELSE /\ USER_SESSIONS' = Stored(USER_SESSIONS, u, S)
             /\ IF r.gone
                THEN /\ last' = Step(u, r.handler, r.data, done, "MessageToDeleteNotFound")
                     /\ running' = [running EXCEPT ![u] = rest]
                     /\ UNCHANGED <<live, stale>>
                ELSE /\ last' = Step(u, r.handler, r.data,
                            done \o <<DeleteMessage(r.target), Say(r.ack)>>
                                 \o show_current_flashcard(S), "")
                     /\ running' = [running EXCEPT ![u] = Gone(rest, r.target)]
                     /\ Chat(u, t, "gone", IF CardShown(S) THEN {"front"} ELSE {})
     /\ UNCHANGED <<fsm, fsmData, files, hist>>

\* ----- quiz -----
\* a quiz as the backend returns it: one question per entry of answers
Quiz(q, answers) ==
  [id |-> q,
   questions |-> [i \in 1..Len(answers) |-> [options |-> Options, correct_answer |-> answers[i]]]]
AnswerLists == UNION {[1..m -> CorrectAnswers] : m \in 0..MaxQuestions}

take_quiz_handler(u, status, any) ==
  /\ fsm[u] = NoFlow
  /\ live[u]["quizzes"] < MaxLists
  /\ IF ~LoggedIn(u)
     THEN /\ last' = Step(u, "take_quiz_handler", QuizText, <<Say("login_first")>>, "")
          /\ UNCHANGED live
     ELSE LET call == <<Call("all-quizzes", USER_SESSIONS[u]["access_token"], <<>>),
                        Response("all-quizzes", status, <<>>)>>
          IN IF status # 200
             THEN /\ last' = Step(u, "take_quiz_handler", QuizText,
                         call \o <<Say("quizzes_failed")>>, "")
                  /\ UNCHANGED live
             ELSE IF ~any
             THEN /\ last' = Step(u, "take_quiz_handler", QuizText,
                         call \o <<Say("no_quizzes")>>, "")
                  /\ UNCHANGED live
             ELSE /\ live' = [live EXCEPT ![u]["quizzes"] = @ + 1]
                  /\ last' = Step(u, "take_quiz_handler", QuizText,
                         call \o <<Say("select_quiz")>>, "")
  /\ Typed(u)
  /\ UNCHANGED <<USER_SESSIONS, fsm, fsmData, files, hist, running>>

PercentageFloorDiv(correct, total) == [num |-> (correct \div total) * 100, den |-> 1]
\* (correct / total) * 100, kept exact as a fraction
Percentage(correct, total) == [num |-> correct * 100, den |-> total]
\* the "%.1f" rendering, in tenths of a percent
Tenths(p) == (2 * 10 * p.num + p.den) \div (2 * p.den)

QuizOver(S) == S["current_question"] >= Len(S["current_quiz"].questions)
\* show_quiz_question: the events for session dict S and the exception raised
show_quiz_question(S) ==
  LET quiz == S["current_quiz"]
      correct == S["correct_answers"]
      total == Len(quiz.questions)
  IN IF ~QuizOver(S)
     THEN [events |-> <<Send("question", {}, <<S["current_question"] + 1, total>>)>>,
           raised |-> ""]
     ELSE IF total = 0
     THEN [events |-> <<>>, raised |-> "ZeroDivisionError"]
     ELSE LET percentage == Percentage(correct, total)
          IN [events |->
                <<Send("quiz_completed", {}, <<correct, total, Tenths(percentage)>>),
                  Call("complete", S["access_token"],
                       [quiz_id |-> quiz.id, score |-> percentage, completed |-> TRUE]),
                  Say("returning")>> \o show_student_menu,
              raised |-> ""]

\* the part shared by start_quiz and quiz_answer_handler: the tapped message is
\* deleted, intro is sent and the question (or the result) for session S shown
ShowQuiz(u, t, handler, before, intro, S) ==
  IF ~IsLive(u, t)
  THEN /\ last' = Step(u, handler, t.data, before, "MessageToDeleteNotFound")
       /\ Chat(u, t, "same", {})
  ELSE LET shown == show_quiz_question(S)
       IN /\ last' = Step(u, handler, t.data,
                 before \o <<DeleteMessage(t.target)>> \o intro \o shown.events,
                 shown.raised)
          /\ Chat(u, t, "gone", IF QuizOver(S) THEN {} ELSE {"question"})

\* show_quiz_question is reached and reports the result
Completes(u, t, S) ==
  IsLive(u, t) /\ QuizOver(S) /\ Len(S["current_quiz"].questions) > 0

QuizFilterAnyState(state) == TRUE
\* the state filter of start_quiz and quiz_answer_handler (no state= argument:
\* the default state)
QuizFilter(state) == state = NoFlow

start_quiz(u, t, status, answers) ==
  /\ QuizFilter(fsm[u])
  /\ StartsWith(t.data, "quiz")
  /\ IF ~LoggedIn(u)
     THEN /\ last' = Step(u, "start_quiz", t.data, <<>>, "KeyError")
          /\ Chat(u, t, "same", {})
          /\ UNCHANGED <<USER_SESSIONS, hist>>
     ELSE LET quiz_id == Split(t.data)[2]
              quiz == Quiz(quiz_id, answers)
              call == <<Call("quiz", USER_SESSIONS[u]["access_token"], quiz_id),
                        Response("quiz", status, <<>>)>>
              S == Update(USER_SESSIONS[u],
                     [current_quiz |-> quiz, current_question |-> 0, correct_answers |-> 0])
          IN IF status # 200
             THEN /\ last' = Step(u, "start_quiz", t.data,
                         call \o <<Say("answer_callback_query_failed")>>, "")
                  /\ Chat(u, t, "same", {})
                  /\ UNCHANGED <<USER_SESSIONS, hist>>
             ELSE /\ USER_SESSIONS' = [USER_SESSIONS EXCEPT ![u] = S]
                  /\ ShowQuiz(u, t, "start_quiz", call \o <<Say("answer_callback_query")>>,
                              <<Say("starting_quiz")>>, S)
                  /\ hist' = [hist EXCEPT ![u].selected = <<>>, ![u].completions = 0]
  /\ UNCHANGED <<fsm, fsmData, files, running>>

MatchesExactly(selected_option, correct_answer) == selected_option = correct_answer
\* selected_option.strip().lower() == correct_answer.strip().lower()
Matches(selected_option, correct_answer) ==
  Lower(Strip(selected_option)) = Lower(Strip(correct_answer))

quiz_answer_handler(u, t) ==
  /\ QuizFilter(fsm[u])
  /\ StartsWith(t.data, "option")
  /\ IF u \notin DOMAIN USER_SESSIONS \/ ~Has(USER_SESSIONS[u], "current_quiz")
     THEN /\ last' = Step(u, "quiz_answer_handler", t.data, <<>>, "KeyError")
          /\ Chat(u, t, "same", {})
          /\ UNCHANGED <<USER_SESSIONS, hist>>
     ELSE IF QuizOver(USER_SESSIONS[u])
     THEN /\ last' = Step(u, "quiz_answer_handler", t.data, <<>>, "IndexError")
          /\ Chat(u, t, "same", {})
          /\ UNCHANGED <<USER_SESSIONS, hist>>
     ELSE LET S0 == USER_SESSIONS[u]
              current_question == S0["current_quiz"].questions[S0["current_question"] + 1]
              selected_option == AfterFirst(t.data)
              S1 == IF Matches(selected_option, current_question.correct_answer)
                    THEN [S0 EXCEPT !["correct_answers"] = @ + 1] ELSE S0
              S == [S1 EXCEPT !["current_question"] = @ + 1]
          IN /\ USER_SESSIONS' = [USER_SESSIONS EXCEPT ![u] = S]
             /\ ShowQuiz(u, t, "quiz_answer_handler", <<Say("answer_callback_query")>>, <<>>, S)
             /\ hist' = [hist EXCEPT ![u].selected = Append(@, selected_option),
                                     ![u].completions = IF Completes(u, t, S) THEN @ + 1 ELSE @]
  /\ UNCHANGED <<fsm, fsmData, files, running>>

\* ----- dispatch -----
\* the filters of the callback-query handlers: state and data
Handled(u, t) ==
  \/ fsm[u] = TeacherAwaitingSubject /\ StartsWith(t.data, "subject")
  \/ fsm[u] = TeacherAwaitingContentType /\ StartsWith(t.data, "content")
  \/ InReview(u) /\ t.data \in {<<"show_answer">>, <<"skip_card">>, <<"knew_it">>, <<"learning">>}
  \/ QuizFilter(fsm[u]) /\ (StartsWith(t.data, "quiz") \/ StartsWith(t.data, "option"))

\* a callback query no handler accepts is dropped
Unhandled(u, t) ==
  /\ ~Handled(u, t)
  /\ last' = Step(u, "unhandled", t.data, <<>>, "")
  /\ Chat(u, t, "same", {})
  /\ UNCHANGED <<USER_SESSIONS, fsm, fsmData, files, hist, running>>

Next ==
  \E u \in SpecUsers :
    \/ cmd_start(u)
    \/ \E text \in {LoginTeacherText, LoginStudentText} : login_handler(u, text)
    \/ \E text \in UsernameTexts : process_username(u, text)
    \/ \E text \in PasswordTexts, status \in TokenStatuses, access \in AccessTokens,
          refresh \in RefreshTokens : process_password(u, text, status, access, refresh)
    \/ \E status \in GetStatuses : upload_audio_handler(u, status)
    \/ \E t \in Taps(u) : process_subject_selection(u, t)
    \/ process_audio(u)
    \/ \E text \in TitleTexts : process_title(u, text)
    \/ \E text \in DescriptionTexts : process_description(u, text)
    \/ \E t \in Taps(u) : process_content_type(u, t)
    \/ \E text \in CountTexts, upStatus \in PostStatuses, id \in AudioIds,
          genStatus \in PostStatuses : process_count_and_upload(u, text, upStatus, id, genStatus)
    \/ \E status \in GetStatuses, n \in 0..MaxCards : learn_new_flashcards_handler(u, status, n)
    \/ \E status \in GetStatuses, n \in 0..MaxCards : review_flashcards_handler(u, status, n)
    \/ \E t \in Taps(u) : show_answer_handler(u, t)
    \/ \E t \in Taps(u) : skip_card_handler(u, t)
    \/ \E t \in Taps(u) : knew_it_handler(u, t)
    \/ \E t \in Taps(u) : still_learning_handler(u, t)
    \/ \E status \in GetStatuses, any \in BOOLEAN : take_quiz_handler(u, status, any)
    \/ \E t \in Taps(u), status \in GetStatuses, answers \in AnswerLists :
          start_quiz(u, t, status, answers)
    \/ \E t \in Taps(u) : quiz_answer_handler(u, t)
    \/ \E t \in Taps(u) : Unhandled(u, t)

Spec == Init /\ [][Next]_vars

\* The updates of the card review of one user, handled concurrently: a handler
\* run is one step, a grading handler two.
Interleaved(u) ==
  \/ login_handler(u, LoginStudentText)
  \/ \E text \in UsernameTexts : process_username(u, text)
  \/ \E text \in PasswordTexts, status \in TokenStatuses, access \in AccessTokens,
        refresh \in RefreshTokens : process_password(u, text, status, access, refresh)
  \/ \E status \in GetStatuses, n \in 0..MaxCards : learn_new_flashcards_handler(u, status, n)
  \/ \E status \in GetStatuses, n \in 0..MaxCards : review_flashcards_handler(u, status, n)
  \/ \E t \in Taps(u) : show_answer_handler(u, t)
  \/ \E t \in Taps(u) : skip_card_handler(u, t)
  \/ \E t \in Taps(u) : knew_it_begins(u, t)
  \/ \E t \in Taps(u) : still_learning_begins(u, t)
  \/ \E i \in DOMAIN running[u], raises \in BOOLEAN : GradeResumes(u, i, raises)

NextInterleaved == \E u \in SpecUsers : Interleaved(u)

SpecInterleaved == Init /\ [][NextInterleaved]_vars

\* The updates of several users handled concurrently: each logs in, loads new
\* cards and skips them or grades them as known.
ConcurrentUser(u) ==
  \/ login_handler(u, LoginStudentText)
  \/ \E text \in UsernameTexts : process_username(u, text)
  \/ \E text \in PasswordTexts, status \in TokenStatuses, access \in AccessTokens,
        refresh \in RefreshTokens : process_password(u, text, status, access, refresh)
  \/ \E status \in GetStatuses, n \in 0..MaxCards : learn_new_flashcards_handler(u, status, n)
  \/ \E t \in Taps(u) : show_answer_handler(u, t)
  \/ \E t \in Taps(u) : skip_card_handler(u, t)
  \/ \E t \in Taps(u) : knew_it_begins(u, t)
  \/ \E i \in DOMAIN running[u], raises \in BOOLEAN : GradeResumes(u, i, raises)

NextConcurrentUsers == \E u \in AllUsers : ConcurrentUser(u)

SpecConcurrentUsers == Init /\ [][NextConcurrentUsers]_vars

\* ======================= properties =======================
\* what the last handler run did
Calls(name) ==
  {i \in DOMAIN last.events : last.events[i].ev = "call" /\ last.events[i].name = name}
Responses(name) ==
  {i \in DOMAIN last.events : last.events[i].ev = "response" /\ last.events[i].name = name}
Sent(name) ==
  {i \in DOMAIN last.events : last.events[i].ev = "send" /\ last.events[i].name = name}
Session == USER_SESSIONS[last.user]

\* the state graph of the specification (sections 3 and 4.2 to 4.4)
DocumentedEdges ==
  {<<NoFlow, AwaitingUsername>>, <<AwaitingUsername, AwaitingPassword>>,
   <<AwaitingPassword, NoFlow>>, <<AwaitingPassword, AwaitingUsername>>,
   <<NoFlow, TeacherAwaitingSubject>>, <<TeacherAwaitingSubject, TeacherAwaitingAudio>>,
   <<TeacherAwaitingAudio, TeacherAwaitingTitle>>,
   <<TeacherAwaitingTitle, TeacherAwaitingDescription>>,
   <<TeacherAwaitingDescription, TeacherAwaitingContentType>>,
   <<TeacherAwaitingContentType, TeacherAwaitingCount>>,
   <<TeacherAwaitingCount, NoFlow>>,
   <<NoFlow, StudentInLearning>>, <<StudentInLearning, NoFlow>>,
   <<NoFlow, StudentInReview>>, <<StudentInReview, NoFlow>>}

\* the states each flow step is declared for
DeclaredFor ==
  [login_handler |-> {NoFlow},
   process_username |-> {AwaitingUsername},
   process_password |-> {AwaitingPassword},
   upload_audio_handler |-> {NoFlow},
   process_subject_selection |-> {TeacherAwaitingSubject},
   process_audio |-> {TeacherAwaitingAudio},
   process_title |-> {TeacherAwaitingTitle},
   process_description |-> {TeacherAwaitingDescription},
   process_content_type |-> {TeacherAwaitingContentType},
   process_count_and_upload |-> {TeacherAwaitingCount},
   learn_new_flashcards_handler |-> {NoFlow},
   review_flashcards_handler |-> {NoFlow},
   show_answer_handler |-> {StudentInLearning, StudentInReview},
   skip_card_handler |-> {StudentInLearning, StudentInReview},
   knew_it_handler |-> {StudentInLearning, StudentInReview},
   still_learning_handler |-> {StudentInLearning, StudentInReview}]

C1_Step ==
  /\ \A u \in AllUsers :
       fsm'[u] # fsm[u] =>
         /\ <<fsm[u], fsm'[u]>> \in DocumentedEdges
         /\ last'.user = u /\ last'.handler \in DOMAIN DeclaredFor
  /\ last'.handler \in DOMAIN DeclaredFor =>
       fsm[last'.user] \in DeclaredFor[last'.handler]

\* C1: every change of a session's flow state is an edge of the documented
\* graph, made by a flow step, and every flow step runs from a state it is
\* declared for.
C1_FlowGraph == [][C1_Step]_vars

\* the wizard has been walked to its end: the last edge, back to NoFlow
C1_Witness ==
  /\ last.handler = "process_count_and_upload"
  /\ last.state = TeacherAwaitingCount
  /\ fsm[last.user] = NoFlow

\* C2: 0 <= cursor <= N in every reachable state of a card review.
C2_CursorWithinBatch ==
  \A u \in DOMAIN USER_SESSIONS :
    Has(USER_SESSIONS[u], "current_flashcards") =>
      /\ 0 <= USER_SESSIONS[u]["current_index"]
      /\ USER_SESSIONS[u]["current_index"] <= Len(USER_SESSIONS[u]["current_flashcards"])

\* C3: once the review has reached cursor = len(cards) and completion is
\* announced with the student menu, the flow state is NoFlow.
C3_CompletionClearsFlow ==
  (Sent("all_reviewed") # {} /\ Sent("student_menu") # {}) => fsm[last.user] = NoFlow

Succeeded(status) == status \in 200..299

\* C4: a generation call is issued only after the upload call of the same
\* submission succeeded, with the audio id that upload returned; a failed
\* upload is followed by no generation call.
C4_GenerateOnlyAfterUpload ==
  /\ \A g \in Calls("generate") :
       /\ last.handler = "process_count_and_upload"
       /\ \E r \in Responses("upload") :
            /\ r < g
            /\ Succeeded(last.events[r].status)
            /\ last.events[g].body.audio_id = last.events[r].body.id
            /\ \E c \in Calls("upload") : c < r
  /\ (\E r \in Responses("upload") : ~Succeeded(last.events[r].status)) =>
       Calls("generate") = {}

\* an upload succeeded and the generation call went out
C4_Witness ==
  /\ last.handler = "process_count_and_upload"
  /\ Calls("generate") # {}
  /\ \E r \in Responses("upload") : last.events[r].body.id = 42

\* the submission stopped at a failed upload
C4_WitnessFailed ==
  /\ last.handler = "process_count_and_upload"
  /\ \E r \in Responses("upload") : ~Succeeded(last.events[r].status)

\* C5: after the submission of the wizard (upload failure, generation failure
\* or success) the temporary audio file of that run is no longer on disk.
C5_TempFileDeleted ==
  (last.handler = "process_count_and_upload" /\ last.raised = "") =>
     \A c \in Calls("upload") : last.events[c].body.file \notin files

TokenFailed ==
  /\ last.handler = "process_password"
  /\ \E r \in Responses("token") : ~Succeeded(last.events[r].status)
TokenSucceeded ==
  /\ last.handler = "process_password"
  /\ \E r \in Responses("token") : Succeeded(last.events[r].status)

\* C6: after a non-success answer to the token exchange a failure notice has
\* been sent, the session holds no authToken and no refreshToken, and the flow
\* state is AwaitingUsername with the username prompt sent again.
C6_FailedLogin ==
  TokenFailed =>
    /\ Sent("login_failed") # {}
    /\ ~Has(Session, "access_token")
    /\ ~Has(Session, "refresh_token")
    /\ fsm[last.user] = AwaitingUsername
    /\ \E f \in Sent("login_failed") : \E p \in Sent("enter_username") : f < p

C6_Witness == TokenFailed /\ last.state = AwaitingPassword

\* C7: after a successful token exchange the session holds the tokens the
\* backend returned, the flow state is NoFlow, and the menu sent is the one of
\* the role chosen with the login button.
C7_SuccessfulLogin ==
  TokenSucceeded =>
    /\ \E r \in Responses("token") :
         /\ Session["access_token"] = last.events[r].body.access
         /\ Session["refresh_token"] = last.events[r].body.refresh
    /\ fsm[last.user] = NoFlow
    /\ hist[last.user].chosen = LoginTeacherText =>
         Sent("teacher_menu") # {} /\ Sent("student_menu") = {}
    /\ hist[last.user].chosen = LoginStudentText =>
         Sent("student_menu") # {} /\ Sent("teacher_menu") = {}

C7_Witness == TokenSucceeded /\ hist[last.user].chosen = LoginTeacherText

\* event e hands the text pw to the chat or to the backend
Carries(e, pw) ==
  CASE e.ev = "send" -> pw \in e.texts
    [] e.ev = "call" /\ e.name = "token" -> e.body.password = pw
    [] e.ev = "call" /\ e.name = "upload" ->
         pw \in {e.body.title, e.body.description, e.body.subject_id}
    [] e.ev = "call" /\ e.name = "generate" -> pw \in {e.body.content_type, e.body.subject_id}
    [] e.ev = "call" /\ e.name = "quiz" -> e.body = pw
    [] OTHER -> FALSE

\* C8: no outbound chat message carries a password typed in AwaitingPassword;
\* the only event that carries it is the token request, and the chat message
\* that brought it is deleted before that request goes out.
C8_PasswordNotEchoed ==
  /\ \A u \in AllUsers : \A pw \in hist[u].passwords : \A i \in DOMAIN last.events :
       Carries(last.events[i], pw) =>
         last.events[i].ev = "call" /\ last.events[i].name = "token"
  /\ last.handler = "process_password" =>
       /\ Cardinality(Calls("token")) = 1
       /\ \A c \in Calls("token") :
            /\ last.events[c].body.password = last.text
            /\ \E d \in DOMAIN last.events :
                 d < c /\ last.events[d] = DeleteMessage("incoming")

\* a password has been typed and answered with chat messages
C8_Witness ==
  /\ last.handler = "process_password"
  /\ last.text \in hist[last.user].passwords
  /\ Sent("login_failed") # {}

GradingCalls == Calls("swipe") \cup Calls("review")
GradingHandlers == {"knew_it_handler", "still_learning_handler"}

\* C9: grading calls are issued by the "I knew it" and "Still learning"
\* handlers only, one per card graded, with endpoint and payload fixed by the
\* flow state and the button; Skip and Show Answer issue none.
C9_GradingCalls ==
  /\ last.handler \notin GradingHandlers => GradingCalls = {}
  /\ (last.handler \in GradingHandlers /\ last.raised = "IndexError") => GradingCalls = {}
  /\ (last.handler \in GradingHandlers /\ last.raised # "IndexError") =>
       /\ Cardinality(GradingCalls) = 1
       /\ \A g \in GradingCalls :
            LET e == last.events[g]
                knew == last.handler = "knew_it_handler"
            IN /\ e.body.card = Session["current_flashcards"][Session["current_index"]].id
               /\ last.state = StudentInLearning =>
                    e.name = "swipe" /\ e.body.direction = (IF knew THEN "left" ELSE "right")
               /\ last.state = StudentInReview =>
                    e.name = "review" /\ e.body.was_correct = knew

\* a batch of two cards: the first graded "I knew it", the second skipped;
\* one grading call was made
C9_Witness ==
  /\ last.handler = "skip_card_handler"
  /\ Sent("all_reviewed") # {}
  /\ Len(Session["current_flashcards"]) = 2
  /\ Session["current_index"] = 2
  /\ Len(hist[last.user].graded) = 1
  /\ hist[last.user].graded[1].body.card = 11
  /\ hist[last.user].graded[1].name = "swipe"
  /\ hist[last.user].graded[1].body.direction = "left"

\* the answered questions whose selected option matched, counted afresh
Recount(u) ==
  LET questions == USER_SESSIONS[u]["current_quiz"].questions
      selected == hist[u].selected
  IN Cardinality({i \in 1..Len(selected) :
       i <= Len(questions) /\
       Lower(Strip(selected[i])) = Lower(Strip(questions[i].correct_answer))})

\* the last step put the question cursor of the current attempt at the number
\* of questions: start_quiz stored a quiz, or quiz_answer_handler moved the cursor
CursorAtEnd ==
  /\ \/ last.handler = "start_quiz" /\ \E r \in Responses("quiz") : last.events[r].status = 200
     \/ last.handler = "quiz_answer_handler" /\ last.raised \notin {"KeyError", "IndexError"}
  /\ QuizOver(Session)

\* the result of the attempt as the last step reported it: one completion call
\* with score 100 * correctCount / M after the result message, the student menu
\* after it, and no completion of this attempt before
ResultReported ==
  LET M == Len(Session["current_quiz"].questions)
      k == Recount(last.user)
  IN /\ Cardinality(Calls("complete")) = 1
     /\ hist[last.user].completions = 1
     /\ \A c \in Calls("complete") :
          LET e == last.events[c]
          IN /\ M > 0 /\ Session["current_question"] = M
             /\ Session["correct_answers"] = k
             /\ e.body.score.num * M = 100 * k * e.body.score.den
             /\ e.body.quiz_id = Session["current_quiz"].id
             /\ e.body.completed
             /\ \E m \in Sent("quiz_completed") :
                  /\ m < c
                  /\ last.events[m].nums[1] = k /\ last.events[m].nums[2] = M
                  /\ 2 * (1000 * k - last.events[m].nums[3] * M) <= M
                  /\ 2 * (last.events[m].nums[3] * M - 1000 * k) <= M
             /\ \E m \in Sent("student_menu") : c < m

\* C10: when the question cursor of a quiz attempt reaches the number of
\* questions M, the result is reported: the percentage shown and the score of
\* the completion call are 100 * correctCount / M, the call {quizId, score,
\* completed} is sent once for the attempt and the student menu follows.
C10_QuizScore == CursorAtEnd => ResultReported

\* what does hold: a completion call is only made by quiz_answer_handler and
\* is a correct report, and quiz_answer_handler reports whenever it returns
\* with the cursor at the end
ScoreWhenReported ==
  /\ Calls("complete") # {} => last.handler = "quiz_answer_handler" /\ ResultReported
  /\ (last.handler = "quiz_answer_handler" /\ last.raised = "" /\ QuizOver(Session)) =>
       Calls("complete") # {}

\* three questions, two answered correctly: "2 out of 3 (66.7%)"
TwoOfThree ==
  /\ Calls("complete") # {}
  /\ \E m \in Sent("quiz_completed") : last.events[m].nums = <<2, 3, 667>>

\* the last step was a run of quiz_answer_handler that found a question at the cursor
Answered(l) ==
  l.handler = "quiz_answer_handler" /\ l.raised \notin {"KeyError", "IndexError"}

C11_Step ==
  last'.handler = "quiz_answer_handler" =>
    LET u == last'.user
    IN IF Answered(last')
       THEN LET S0 == USER_SESSIONS[u]
                S1 == USER_SESSIONS'[u]
                question == S0["current_quiz"].questions[S0["current_question"] + 1]
                selected == AfterFirst(last'.text)
                equal == Lower(Strip(selected)) = Lower(Strip(question.correct_answer))
            IN /\ S1["current_question"] = S0["current_question"] + 1
               /\ S1["correct_answers"] = S0["correct_answers"] + (IF equal THEN 1 ELSE 0)
               /\ (\A i \in 1..Len(hist'[u].selected) :
                     Lower(Strip(hist'[u].selected[i])) =
                       Lower(Strip(S1["current_quiz"].questions[i].correct_answer)))
                   => S1["correct_answers"] = S1["current_question"]
       ELSE UNCHANGED USER_SESSIONS

\* C11: every option selection graded against the question at the cursor adds
\* 1 to correct_answers iff the option equals that question's correct_answer
\* after strip() and lower(), and adds 1 to current_question either way; when
\* all selections matched, correct_answers equals the questions answered.
C11_OptionGrading == [][C11_Step]_vars

\* a quiz of at least two questions answered with the option " pA " against the
\* answer "Pa" throughout: it ends with every question counted correct
C11_Witness ==
  /\ Answered(last)
  /\ QuizOver(Session)
  /\ Len(Session["current_quiz"].questions) >= 2
  /\ Session["correct_answers"] = Len(Session["current_quiz"].questions)
  /\ AfterFirst(last.text) # Session["current_quiz"].questions[1].correct_answer

\* C12: a quiz with zero questions never becomes the current quiz of a session
\* and the percentage is never computed with total = 0.
C12_ZeroQuestionQuizRejected ==
  /\ last.raised # "ZeroDivisionError"
  /\ \A u \in DOMAIN USER_SESSIONS :
       Has(USER_SESSIONS[u], "current_quiz") =>
         Len(USER_SESSIONS[u]["current_quiz"].questions) > 0

\* the upload or the generation call of the last step was answered with a failure
SubmissionFailed ==
  /\ last.handler = "process_count_and_upload"
  /\ \E r \in Responses("upload") \cup Responses("generate") :
       ~Succeeded(last.events[r].status)

\* C13: after a failed upload or generation call an error message has been
\* sent, the flow state is NoFlow and the flow step returned without exception.
C13_FailedSubmissionAborts ==
  SubmissionFailed =>
    /\ Sent("upload_failed") \cup Sent("generation_failed") # {}
    /\ fsm[last.user] = NoFlow
    /\ last.raised = ""

FlowTriggers ==
  {"upload_audio_handler", "learn_new_flashcards_handler", "review_flashcards_handler",
   "take_quiz_handler"}
\* the backend calls of the last step that go out with an Authorization header
AuthenticatedCalls ==
  {i \in DOMAIN last.events : last.events[i].ev = "call" /\ last.events[i].name # "token"}

\* C14: every backend call other than the token exchange is made for a session
\* that holds an access token and carries that token; a flow trigger handled
\* for a user without a token makes no call, sends the login prompt and leaves
\* the flow state as it was.
C14_NoCallWithoutToken ==
  /\ \A i \in AuthenticatedCalls :
       /\ LoggedIn(last.user)
       /\ last.events[i].token = Session["access_token"]
       /\ last.events[i].token \in AccessTokens
  /\ (last.handler \in FlowTriggers /\ ~LoggedIn(last.user)) =>
       /\ AuthenticatedCalls = {}
       /\ Sent("login_first") # {}
       /\ fsm[last.user] = last.state
       /\ last.raised = ""

\* "Take Quiz" from a user who never logged in
C14_Witness ==
  /\ last.handler = "take_quiz_handler"
  /\ ~LoggedIn(last.user)
  /\ Sent("login_first") # {}

\* a grading call made with the token of the session
C14_WitnessCall ==
  /\ last.handler = "knew_it_handler"
  /\ \E i \in AuthenticatedCalls : last.events[i].token = Session["access_token"]

\* what Python's int() makes of the count texts, 10 where it raises ValueError
ExpectedCount(text) ==
  CASE text = <<"7">> -> 7
    [] text = <<" ", "1", "2">> -> 12
    [] text = <<"-", "3">> -> 0 - 3
    [] OTHER -> 10

\* C15: whatever the count text, the submission is made and the count is not
\* asked again; the generation request carries the integer the text parses
\* to, and 10 when it does not parse.
C15_CountDefault ==
  (last.handler = "process_count_and_upload" /\ last.raised = "") =>
    /\ Calls("upload") # {}
    /\ Sent("how_many") = {}
    /\ \A g \in Calls("generate") : last.events[g].body.count = ExpectedCount(last.text)

\* the text "a" submitted: the generation request asks for 10 items
C15_Witness ==
  /\ last.handler = "process_count_and_upload"
  /\ last.text = <<"a">>
  /\ \E g \in Calls("generate") : last.events[g].body.count = 10

\* the text " 12" submitted: the generation request asks for 12 items
C15_WitnessParsed ==
  /\ last.handler = "process_count_and_upload"
  /\ last.text = <<" ", "1", "2">>
  /\ \E g \in Calls("generate") : last.events[g].body.count = 12

\* the last step ended a flow: login succeeded, the wizard completed or the
\* end of a card batch was announced
FlowEnded ==
  \/ TokenSucceeded
  \/ last.handler = "process_count_and_upload" /\ Sent("content_generated") # {}
  \/ Sent("all_reviewed") # {}

\* C16: when a flow has ended the flow state is NoFlow, the upload draft, the
\* card batch and its cursor are gone, and the token and the role are kept.
C16_ClearFlow ==
  FlowEnded =>
    /\ fsm[last.user] = NoFlow
    /\ fsmData[last.user] = EmptyDict
    /\ ~Has(Session, "current_flashcards")
    /\ ~Has(Session, "current_index")
    /\ Has(Session, "access_token")
    /\ Has(Session, "role")

\* the update of the last step was a quiz callback: a quiz or an option selected
QuizCallback == StartsWith(last.text, "quiz") \/ StartsWith(last.text, "option")

\* C17: a quiz callback for a session with a current quiz attempt is processed
\* in whatever flow state it arrives, never dropped.
C17_QuizCallbacksAnyState ==
  (QuizCallback /\ LoggedIn(last.user) /\ Has(Session, "current_quiz")) =>
    last.handler \in {"start_quiz", "quiz_answer_handler"}

\* C17, amended: quiz callbacks are processed when the flow state is NoFlow
\* and only then; in every other flow state they are dropped.
C17_QuizCallbacksOnlyNoFlow ==
  /\ last.handler \in {"start_quiz", "quiz_answer_handler"} => last.state = NoFlow
  /\ (last.handler = "unhandled" /\ QuizCallback) => last.state # NoFlow

\* an option of the current quiz tapped during a card review is dropped
C17_Witness ==
  /\ last.handler = "unhandled"
  /\ StartsWith(last.text, "option")
  /\ Has(Session, "current_quiz")
  /\ ~QuizOver(Session)
  /\ last.state = StudentInLearning

\* ----- concurrent handling -----
\* everything the bot keeps for user b
OwnState(b) ==
  <<IF b \in DOMAIN USER_SESSIONS THEN <<USER_SESSIONS[b]>> ELSE <<>>,
    fsm[b], fsmData[b], live[b], stale[b], running[b], hist[b]>>

C18_Step == \A b \in AllUsers \ {last'.user} : OwnState(b)' = OwnState(b)

\* the updates the state of user b alone admits are processed
Accepts(b) ==
  /\ fsm[b] = NoFlow => ENABLED login_handler(b, LoginStudentText)
  /\ fsm[b] = AwaitingUsername => \A text \in UsernameTexts : ENABLED process_username(b, text)
  /\ fsm[b] = AwaitingPassword =>
       \A text \in PasswordTexts, status \in TokenStatuses :
          ENABLED process_password(b, text, status, "access1", "refresh1")
  /\ fsm[b] = NoFlow =>
       \A status \in GetStatuses, n \in 0..MaxCards :
          ENABLED learn_new_flashcards_handler(b, status, n)
  /\ InReview(b) =>
       \A t \in Taps(b) :
          /\ t.data = <<"show_answer">> => ENABLED show_answer_handler(b, t)
          /\ t.data = <<"skip_card">> => ENABLED skip_card_handler(b, t)
          /\ (t.data = <<"knew_it">> /\ Len(running[b]) < MaxRunning
                /\ Len(hist[b].graded) < MaxGraded) => ENABLED knew_it_begins(b, t)
  /\ \A i \in DOMAIN running[b], raises \in BOOLEAN : ENABLED GradeResumes(b, i, raises)

\* C18: handling an update of one user, whatever its backend call does (it
\* fails, never returns, or raises), leaves the session record, the flow state
\* and everything else kept for every other user unchanged, and every update
\* another user's own state admits is processed, also while runs of the first
\* user are suspended.
C18_UsersIsolated == [][C18_Step]_vars /\ [](\A b \in AllUsers : Accepts(b))

\* user 2 grades a card and gets the next one while a grading run of user 1 is
\* suspended at its backend call
C18_Witness ==
  /\ last.user = 2
  /\ last.handler = "knew_it_handler"
  /\ Sent("marked_known") # {} /\ Sent("card") # {}
  /\ running[1] # <<>>
  /\ running[2] = <<>>
  /\ USER_SESSIONS[2]["current_index"] = 1
  /\ USER_SESSIONS[1]["current_index"] = 0

\* what the suspended runs hold: the handler and the cursor it read
Reads(runs) == [j \in DOMAIN runs |-> <<runs[j].handler, runs[j].current_index>>]

\* the step is run i of user u resumed by a response: the run went on to the
\* increment and to answering the callback query
Resumed(u, i) ==
  /\ last'.user = u
  /\ i \in DOMAIN running[u]
  /\ Len(running'[u]) = Len(running[u]) - 1
  /\ last'.events # <<>>
  /\ last'.events[1] = Say("answer_callback_query")
  /\ running[u][i].handler = last'.handler
  /\ Reads(running'[u]) = Reads(Without(running[u], i))

\* the cursor run i read is behind: another handler run has advanced it since
Overtaken(u, i) == running[u][i].current_index < USER_SESSIONS[u]["current_index"]

C19_StepLost ==
  \A u \in SpecUsers : \A i \in DOMAIN running[u] :
    (Resumed(u, i) /\ Overtaken(u, i)) =>
       USER_SESSIONS'[u]["current_index"] = running[u][i].current_index + 1

\* C19: a grading run that resumes after another run of the same user has
\* advanced the cursor it read writes back its own read plus one, so that one
\* update is lost and the cursor ends one behind the handled actions.
C19_LostUpdate == [][C19_StepLost]_vars

C19_Step ==
  \A u \in SpecUsers : \A i \in DOMAIN running[u] :
    Resumed(u, i) =>
       USER_SESSIONS'[u]["current_index"] = USER_SESSIONS[u]["current_index"] + 1

\* C19, amended: two grading runs of one user may read the same cursor before
\* either writes, but no update is lost: every run that resumes advances the
\* cursor by one from the value it has then, whatever value the run read.
C19_NoLostUpdate == [][C19_Step]_vars

\* a double tap handled: both runs read cursor 0 and graded the first card, the
\* second run resumed after the first and found its message deleted; the
\* cursor is 2, past the second card, which was never shown
C19_Witness ==
  /\ last.handler \in {"knew_it_handler", "still_learning_handler"}
  /\ last.raised = "MessageToDeleteNotFound"
  /\ running[1] = <<>>
  /\ Len(hist[1].graded) = 2
  /\ hist[1].graded[1].body.card = hist[1].graded[2].body.card
  /\ Len(USER_SESSIONS[1]["current_flashcards"]) = 2
  /\ USER_SESSIONS[1]["current_index"] = 2

\* C20: in one card review batch no card gets two grading calls, however the
\* handler runs of the user's taps interleave.
C20_OneGradingCallPerCard ==
  \A u \in AllUsers : \A i, j \in DOMAIN hist[u].graded :
    i # j => hist[u].graded[i].body.card # hist[u].graded[j].body.card

\* the handlers that index the batch: flashcards[current_index]
CardHandlers == {"show_answer_handler", "knew_it_handler", "still_learning_handler"}

\* C21: a handler that indexes the card batch never runs with the cursor at or
\* past the end of the batch, whatever taps arrive after the last card was
\* skipped or graded.
C21_CardHandlersWithinBatch ==
  last.handler \in CardHandlers => last.raised # "IndexError"

\* 0 <= correct_answers <= current_question <= number of questions, for every
\* session with a quiz attempt
QuizCountersOrdered ==
  \A u \in DOMAIN USER_SESSIONS :
    Has(USER_SESSIONS[u], "current_quiz") =>
      LET S == USER_SESSIONS[u]
      IN /\ 0 <= S["correct_answers"]
         /\ S["correct_answers"] <= S["current_question"]
         /\ S["current_question"] <= Len(S["current_quiz"].questions)

\* C22: in a quiz attempt with M questions 0 <= correctCount <= questionCursor
\* <= M always, and quiz_answer_handler only runs with questionCursor < M,
\* also for option taps that arrive after the attempt has completed.
C22_QuizCursorWithinQuiz ==
  /\ QuizCountersOrdered
  /\ last.handler = "quiz_answer_handler" => last.raised # "IndexError"

\* the last step was a submission of the wizard that called the upload endpoint
Uploaded == last.handler = "process_count_and_upload" /\ Calls("upload") # {}

C23_Step ==
  (Uploaded /\ fsm[last.user] = TeacherAwaitingCount) =>
     ~(Uploaded' /\ last'.user = last.user)

\* C23: in one run of the teacher wizard the upload endpoint is called at most
\* once: a text message sent after a submission that called it and left the
\* session in the wizard does not call it again.
C23_UploadAtMostOnce == [][C23_Step]_vars

C24_Step ==
  last'.handler = "login_handler" =>
    LET u == last'.user
    IN /\ fsm'[u] = AwaitingUsername
       /\ USER_SESSIONS'[u]["role"] =
            (IF last'.text = LoginTeacherText THEN "teacher" ELSE "student")
       /\ LoggedIn(u) =>
            /\ Has(USER_SESSIONS'[u], "access_token")
            /\ USER_SESSIONS'[u]["access_token"] = USER_SESSIONS[u]["access_token"]

\* C24: choosing a login button sets the role and moves to AwaitingUsername
\* and keeps a token the session already holds.
C24_RoleSelectionKeepsToken == [][C24_Step]_vars

====
